---------------------------- MODULE Spec2Model ----------------------------
(***************************************************************************)
(* A model of bill_pdf_generator (src/main.py): the pydantic input records *)
(* (Client, LawFirm, Time, Fees), PDFInvoiceWriter.build and the methods   *)
(* it calls, the per-page footer callback _draw_footer, and the document   *)
(* build that receives the story.                                          *)
(*                                                                         *)
(* Conventions.                                                            *)
(*  - Texts are TLA+ strings; an f-string is a concatenation.              *)
(*  - Durations are whole seconds (timedelta.total_seconds()).             *)
(*  - Amounts of money are exact rationals, kept as integers in units of   *)
(*    1/MoneyScale euro, so that d/3600*rate and its 20% are exact; the    *)
(*    model has no binary floating-point rounding error.                   *)
(*  - Lengths on the page are PostScript points; a Spacer's height is in   *)
(*    tenths of a point (12 * 0.3 is 3.6 points).                          *)
(*  - An unbound Python name is the empty sequence, a bound one <<value>>. *)
(***************************************************************************)
EXTENDS Integers, Sequences, FiniteSets, TLC

VARIABLES
    pc,        \* position of the __main__ block / of build
    client,    \* <<Client>> once constructed
    lawfirm,   \* <<LawFirm>> once constructed
    times,     \* the Time records constructed so far, in order
    fees,      \* <<Fees>> once constructed
    contents,  \* PDFInvoiceWriter.contents, the story under construction
    now,       \* <<datetime.now()>> as read by build
    handed,    \* TRUE once doc.build has received a story
    story,     \* the story doc.build received
    pages,     \* the pages rendered so far, each with what was drawn on it
    saved,     \* the output file: "none", "written" or "failed"
    writes,    \* number of attempts to write the output file
    stdout,    \* the messages printed
    raised,    \* the exception that left the program, "" when none
    archive    \* the builds completed by earlier runs of the program

vars == <<pc, client, lawfirm, times, fees, contents, now, handed, story,
          pages, saved, writes, stdout, raised, archive>>

---------------------------------------------------------------------------
(* Bounds of the model. *)

\* Time records per fee schedule, specification SpecFees.
MaxTimes == 4
\* Time records per fee schedule, specifications Spec and SpecTwoBuilds.
MaxRows == 2
\* Collaborator names per law firm.
MaxCollab == 2
\* Pages the document build lays the story out on.
MaxPages == 2

---------------------------------------------------------------------------
(* Constants of the program and of the reportlab defaults it relies on. *)

\* letter[0], the page width in points
LetterWidth == 612
\* reportlab.lib.units.inch; SimpleDocTemplate's four margins default to it
Inch == 72
\* leading of styles["Normal"], which every style() result inherits
NormalLeading == 12
\* font_size of the footer style
FooterFontSize == 9
\* default font_size of style()
BaseFontSize == 12
\* font_size of the lawyer title
TitleFontSize == 16
\* base_height of spacer()
SpacerBase == 12
\* vat = ht_price * 0.20, in percent
VatPercent == 20
\* seconds per hour, the divisor of total_seconds()
HourSeconds == 3600
\* seconds per minute
MinuteSeconds == 60

\* Amounts are integers in units of 1/MoneyScale euro: 1/3600 for the hours
\* and 1/5 for the 20%.
MoneyScale == HourSeconds * (100 \div VatPercent)

LeftMargin == Inch
BottomMargin == Inch
\* doc.width: the page width minus the left and right margins
DocWidth == LetterWidth - 2 * Inch

---------------------------------------------------------------------------
(* Number formatting. *)

Abs(n) == IF n < 0 THEN -n ELSE n

\* zero-padded to two digits: the %d, %m of strftime and the cents of .2f
Pad2(n) == IF n < 10 THEN "0" \o ToString(n) ELSE ToString(n)

\* f"{x:02.0f}" of an integer-valued float: width two, zero-padded, the sign
\* counted in the width
Fmt02(n) == IF n >= 0 THEN Pad2(n) ELSE ToString(n)

\* an amount rounded to cents as .2f rounds it: to the nearest cent, a tie
\* to the even cent
CentsOf(u) ==
    LET per == MoneyScale \div 100
        a == Abs(u)
        q == a \div per
        r == a % per
    IN  IF 2 * r > per \/ (2 * r = per /\ q % 2 = 1) THEN q + 1 ELSE q

\* f"{x:.2f}"
Fmt2f(u) ==
    LET c == CentsOf(u)
    IN  (IF u < 0 THEN "-" ELSE "") \o ToString(c \div 100) \o "." \o Pad2(c % 100)

\* str() of a float with an integer value, as f"{self.fees.price}" prints it
FloatStr(r) == ToString(r) \o ".0"

\* date(year, month, day)
Date(year, month, day) == [year |-> year, month |-> month, day |-> day]

\* datetime.now(): a date and an hour of the day
Instant(year, month, day, hour) ==
    [year |-> year, month |-> month, day |-> day, hour |-> hour]

MONTH_TO_FRENCH ==
    <<"janvier", "février", "mars", "avril", "mai", "juin", "juillet",
      "août", "septembre", "octobre", "novembre", "décembre">>

\* date.strftime('%d/%m/%Y')
StrfDate(d) == Pad2(d.day) \o "/" \o Pad2(d.month) \o "/" \o ToString(d.year)

---------------------------------------------------------------------------
(* Styles and content blocks. *)

font_from_style(font_style) ==
    CASE font_style = "base" -> "Yrsa"
      [] font_style = "bold" -> "YrsaBold"
      [] font_style = "italic" -> "YrsaItalic"
      [] font_style = "bold_italic" -> "YrsaBoldItalic"

\* style(alignment, font_style, font_size): a fresh ParagraphStyle whose
\* parent is styles["Normal"]
Style(alignment, font_style, font_size) ==
    [alignment |-> alignment, fontName |-> font_from_style(font_style),
     fontSize |-> font_size, leading |-> NormalLeading]

NoStyle == [alignment |-> "", fontName |-> "", fontSize |-> 0, leading |-> 0]

Paragraph(text, style) ==
    [text |-> text, style |-> style, kind |-> "Paragraph", height |-> 0,
     rows |-> <<>>, box |-> FALSE]

\* Spacer(1, base_height * height), the height given in tenths of base_height
Spacer(tenths) ==
    [text |-> "", style |-> NoStyle, kind |-> "Spacer",
     height |-> SpacerBase * tenths, rows |-> <<>>, box |-> FALSE]

\* Table(data, ...): rows of Paragraph cells; box is the BOX table style
Table(data, box) ==
    [text |-> "", style |-> NoStyle, kind |-> "Table", height |-> 0,
     rows |-> data, box |-> box]

---------------------------------------------------------------------------
(* The input records (pydantic models) and the values the model draws them *)
(* from: the records of the __main__ block and a few others.               *)

\* as ClientValid, had gender been declared str
ClientValidAnyGender(name, gender, city, zip_code, adress) == gender \in STRING

\* Client: gender is Literal["M", "F"], the other fields are str
ClientValid(name, gender, city, zip_code, adress) == gender \in {"M", "F"}

Client(name, gender, city, zip_code, adress) ==
    [name |-> name, gender |-> gender, city |-> city, zip_code |-> zip_code,
     adress |-> adress]

\* Time: description is str, duration any timedelta, date any date
TimeValid(description, duration, date) == duration \in Int

Time(description, duration, date) ==
    [description |-> description, duration |-> duration, date |-> date]

\* Fees: times is a list of Time, price any float
FeesValid(ts, price) == price \in Int

Fees(ts, price) == [times |-> ts, price |-> price]

\* LawFirm: every field is str, collaborators a list of str
LawFirm(contact, collaborators) ==
    [city |-> contact.city, zip_code |-> contact.zip_code,
     adress |-> contact.adress, collaborators |-> collaborators,
     principal_lawyer |-> contact.principal_lawyer, phone |-> contact.phone,
     toque_adress |-> contact.toque_adress, mail |-> contact.mail,
     website |-> contact.website, vat_number |-> contact.vat_number,
     siret_number |-> contact.siret_number]

\* the law firm of the __main__ block, without its collaborators
MainFirm ==
    [city |-> "Paris", zip_code |-> "75000", adress |-> "123 Rue de la Paix",
     principal_lawyer |-> "Jean-Pierre Machin", phone |-> "01.23.45.67.89", toque_adress |-> "Somewhere AX8786",
     mail |-> "cabinet.avocate@gmail.com", website |-> "cabinet-avocat.fr",
     vat_number |-> "FR1234567890", siret_number |-> "1234567890"]

\* the same firm with a mail address that makes the second footer line long
LongMailFirm ==
    [MainFirm EXCEPT !.mail =
        "secretariat.du.cabinet.droit.de.la.famille.et.du.patrimoine@avocats-associes-paris.example"]

\* the same firm with a street address that makes the first footer line long
LongAdressFirm ==
    [MainFirm EXCEPT !.adress =
        "Immeuble Le Palais, Escalier B, 4e etage gauche, 123 bis Rue de la Paix, Quartier de la Place Vendome, CS 10234"]

FirmContacts == {MainFirm, LongMailFirm, LongAdressFirm}

MainCollaborators == <<"Gerard LOULOU", "Francesca MARTINI">>

CollaboratorNames == {MainCollaborators[1], MainCollaborators[2]}

GenderTags == {"M", "F", "X"}

\* the four Time records of the __main__ block
MainTimes ==
    <<Time("Courriel Mme : Projet LO", 11 * MinuteSeconds, Date(2025, 3, 24)),
      Time("Courriel Mme", 6 * MinuteSeconds, Date(2025, 3, 25)),
      Time("Renvoi audience", HourSeconds, Date(2025, 4, 2)),
      Time("An element done in 3 hours and 12 minutes",
           3 * HourSeconds + 12 * MinuteSeconds, Date(2025, 5, 3))>>

\* 10 min 59 s: a duration with seconds left over
OddTime == Time("Appel", 10 * MinuteSeconds + 59, Date(2025, 5, 6))

\* minus 5 minutes
NegativeTime == Time("Avoir", -(5 * MinuteSeconds), Date(2025, 5, 7))

TimeInputs == {MainTimes[i] : i \in 1..4} \cup {OddTime, NegativeTime}

FewTimeInputs == {MainTimes[1], OddTime}

\* price=300 of the __main__ block
MainRate == 300

Rates == {MainRate, -20}


Clock == {Instant(2025, 3, 24, 9), Instant(2025, 3, 24, 17), Instant(2025, 12, 1, 9)}

FewInstants == {Instant(2025, 3, 24, 9), Instant(2025, 12, 1, 9)}

RECURSIVE SeqsUpTo(_, _)
\* the sequences over S of length at most n
SeqsUpTo(S, n) ==
    IF n = 0 THEN {<<>>}
    ELSE LET shorter == SeqsUpTo(S, n - 1)
         IN  shorter \cup {Append(q, x) : q \in shorter, x \in S}

---------------------------------------------------------------------------
(* The methods of PDFInvoiceWriter that add to the story: each operator is *)
(* the sequence of blocks the method appends to self.contents.             *)

\* spacer(height): the height given in tenths
spacer(tenths) == <<Spacer(tenths)>>

lawyer_title(name) ==
    <<Paragraph(name, Style("center", "bold", TitleFontSize))>>
    \o spacer(3)
    \o <<Paragraph("Avocate à la Cour", Style("center", "base", TitleFontSize))>>

\* as CollaboratorCaption, with the plural from one name on
CollaboratorCaptionFromOne(names) ==
    "Avocate" \o (IF Len(names) >= 1 THEN "s" ELSE "") \o " à la Cour"

\* "Avocate{} à la Cour".format("s" if len(names) > 1 else "")
CollaboratorCaption(names) ==
    "Avocate" \o (IF Len(names) > 1 THEN "s" ELSE "") \o " à la Cour"

collaborator_title(names) ==
    <<Paragraph("En collaboration avec :", Style("left", "italic", BaseFontSize))>>
    \o [i \in 1..Len(names) |->
            Paragraph(names[i], Style("left", "base", BaseFontSize))]
    \o <<Paragraph(CollaboratorCaption(names), Style("left", "base", BaseFontSize))>>

\* title = "Monsieur" if client.gender == "M" else "Madame"
Honorific(gender) == IF gender = "M" THEN "Monsieur" ELSE "Madame"

client_address(c) ==
    LET style == Style("right", "bold", BaseFontSize)
    IN  <<Paragraph(Honorific(c.gender) \o " " \o c.name, style),
          Paragraph(c.adress, style),
          Paragraph(c.zip_code \o " " \o c.city, style)>>

\* f"{place}, le {date.day} {MONTH_TO_FRENCH[date.month]} {date.year}"
PlaceAndDateText(place, date) ==
    place \o ", le " \o ToString(date.day) \o " " \o MONTH_TO_FRENCH[date.month]
    \o " " \o ToString(date.year)

place_and_date(place, date) ==
    <<Paragraph(PlaceAndDateText(place, date), Style("right", "base", BaseFontSize))>>

invoice_number_rectangle(number) ==
    <<Table(<<<<Paragraph("FACTURE N°" \o number,
                          Style("center", "bold", BaseFontSize))>>>>, TRUE)>>

\* price = duration.total_seconds() / 3600 * rate, in units of 1/MoneyScale euro
Price(duration, rate) == duration * rate * (MoneyScale \div HourSeconds)

\* hours = duration.total_seconds() // 3600
Hours(seconds) == seconds \div HourSeconds

\* as Minutes, rounding to the nearest minute
MinutesRounded(seconds) ==
    ((seconds % HourSeconds) + MinuteSeconds \div 2) \div MinuteSeconds

\* minutes = (duration.total_seconds() % 3600) // 60
Minutes(seconds) == (seconds % HourSeconds) \div MinuteSeconds

\* one row of the itemized fee table
FeeRow(time, rate) ==
    <<Paragraph("", Style("left", "base", BaseFontSize)),
      Paragraph(time.description \o " (" \o StrfDate(time.date) \o ")",
                Style("left", "bold", BaseFontSize)),
      Paragraph(Fmt02(Hours(time.duration)) \o ":" \o Fmt02(Minutes(time.duration)),
                Style("right", "bold", BaseFontSize)),
      Paragraph(Fmt2f(Price(time.duration, rate)) \o " €",
                Style("right", "bold", BaseFontSize))>>

list_fee_table(f) ==
    <<Table([i \in 1..Len(f.times) |-> FeeRow(f.times[i], f.price)], FALSE)>>

RECURSIVE SumRoundedPrices(_, _)
\* as SumPrices, adding the prices as the rows show them, rounded to cents
SumRoundedPrices(ts, rate) ==
    IF ts = <<>> THEN 0
    ELSE LET p == Price(ts[Len(ts)].duration, rate)
         IN  SumRoundedPrices(SubSeq(ts, 1, Len(ts) - 1), rate)
             + (IF p < 0 THEN -1 ELSE 1) * CentsOf(p) * (MoneyScale \div 100)

RECURSIVE SumPrices(_, _)
\* sum(duration / 3600 * rate for time in times), added from the left
SumPrices(ts, rate) ==
    IF ts = <<>> THEN 0
    ELSE SumPrices(SubSeq(ts, 1, Len(ts) - 1), rate)
         + Price(ts[Len(ts)].duration, rate)

RECURSIVE SumSeconds(_)
\* sum(duration.total_seconds() for time in times)
SumSeconds(ts) ==
    IF ts = <<>> THEN 0
    ELSE SumSeconds(SubSeq(ts, 1, Len(ts) - 1)) + ts[Len(ts)].duration

\* vat = ht_price * 0.20
Vat(ht_price) == ht_price \div (100 \div VatPercent)

\* the values show_total computes before it formats them
Totals(f) ==
    LET ht_price == SumPrices(f.times, f.price)
        total_time_seconds == SumSeconds(f.times)
        hours == Hours(total_time_seconds)
        minutes == Minutes(total_time_seconds)
        vat == Vat(ht_price)
        ttc_price == ht_price + vat
    IN  [ht_price |-> ht_price, total_time_seconds |-> total_time_seconds,
         hours |-> hours, minutes |-> minutes, vat |-> vat,
         ttc_price |-> ttc_price]

show_total(f) ==
    LET t == Totals(f)
        label_style == Style("left", "bold", BaseFontSize)
        value_style == Style("right", "bold", BaseFontSize)
        empty_style == Style("left", "base", BaseFontSize)
    IN  <<Table(
            <<<<Paragraph("", empty_style),
                Paragraph("<u>Soit un total de " \o Fmt02(t.hours) \o "h"
                          \o Fmt02(t.minutes) \o "</u>", label_style),
                Paragraph("", value_style)>>,
              <<Paragraph("", empty_style),
                Paragraph("Honoraires H.T.", label_style),
                Paragraph(Fmt2f(t.ht_price) \o " €", value_style)>>,
              <<Paragraph("", empty_style),
                Paragraph("TVA 20%", label_style),
                Paragraph(Fmt2f(t.vat) \o " €", value_style)>>,
              <<Paragraph("", empty_style),
                Paragraph("TOTAL T.T.C. DU", label_style),
                Paragraph(Fmt2f(t.ttc_price) \o " €", value_style)>>>>,
            FALSE)>>

detail_fees(f) ==
    LET fees_style == Style("left", "bold", BaseFontSize)
    IN  <<Paragraph("<u>Honoraires</u>", fees_style)>>
        \o spacer(10)
        \o <<Paragraph("Facturation horaire : " \o FloatStr(f.price)
                \o " euros HT de l'heure (selon l'article 2.1 du contrat de mission)",
                fees_style)>>
        \o spacer(10)
        \o <<Paragraph("Diligences effectuées :", fees_style)>>
        \o spacer(10)
        \o list_fee_table(f)
        \o spacer(50)
        \o show_total(f)

final ==
    <<Paragraph("TVA Applicable -", Style("left", "italic", BaseFontSize)),
      Paragraph("En votre aimable règlement", Style("left", "bold", BaseFontSize))>>
    \o spacer(10)
    \o <<Paragraph("<u>Conformément à nos usages de professions libérales, la présente est payable dès réception</u>",
                   Style("left", "base", BaseFontSize))>>

---------------------------------------------------------------------------
(* The footer callback.  A canvas is the depth of its stack of saved       *)
(* graphics states and the paragraphs drawn on it, each with the position  *)
(* of its lower left corner and its height.                                *)

BlankCanvas == [saved |-> 0, drawn |-> <<>>]

saveState(canvas) == [canvas EXCEPT !.saved = @ + 1]

restoreState(canvas) == [canvas EXCEPT !.saved = @ - 1]

drawOn(canvas, text, left, bottom, height) ==
    [canvas EXCEPT !.drawn =
        Append(@, [text |-> text, height |-> height, left |-> left,
                   bottom |-> bottom])]

\* The width of a text set in a style.  The glyph widths belong to the font
\* files; the model takes half an em for every glyph.
StringWidth(text, style) == (Len(text) * style.fontSize) \div 2

\* the lines Paragraph.wrap breaks a text into: at least one, and as many as
\* its width needs
WrapLines(text, style, availWidth) ==
    LET w == StringWidth(text, style)
    IN  IF w <= availWidth THEN 1 ELSE (w + availWidth - 1) \div availWidth

\* the height Paragraph.wrap returns: one leading per line
WrapHeight(text, style, availWidth) ==
    WrapLines(text, style, availWidth) * style.leading

FooterLine1(firm) == firm.adress \o " " \o firm.zip_code \o " " \o firm.city

FooterLine2(firm) ==
    "Tel : " \o firm.phone \o " - Mail : " \o firm.mail \o " - Site : " \o firm.website

FooterLine3(firm) ==
    "TVA Intracommunautaire : " \o firm.vat_number \o " - SIRET : " \o firm.siret_number

\* The vertical positions of the three lines: y_position + h1 * 1.5,
\* y_position + h1 * 0.5, y_position - h2 * 0.5 (a height is a multiple of
\* the leading, so the halves are whole points).
FooterYs(h1, h2) ==
    LET y_position == BottomMargin \div 2
    IN  <<y_position + (h1 * 3) \div 2, y_position + h1 \div 2, y_position - h2 \div 2>>

draw_footer(canvas, firm) ==
    LET footer_style == Style("center", "base", FooterFontSize)
        h1 == WrapHeight(FooterLine1(firm), footer_style, DocWidth)
        h2 == WrapHeight(FooterLine2(firm), footer_style, DocWidth)
        h3 == WrapHeight(FooterLine3(firm), footer_style, DocWidth)
        ys == FooterYs(h1, h2)
        c0 == saveState(canvas)
        c1 == drawOn(c0, FooterLine1(firm), LeftMargin, ys[1], h1)
        c2 == drawOn(c1, FooterLine2(firm), LeftMargin, ys[2], h2)
        c3 == drawOn(c2, FooterLine3(firm), LeftMargin, ys[3], h3)
    IN  restoreState(c3)

---------------------------------------------------------------------------
(* The document build: doc.build(self.contents, onFirstPage=...,           *)
(* onLaterPages=...).                                                      *)

\* as OnLaterPages, had build registered the footer for the first page only
NoLaterCallback == "_doNothing"

\* the callbacks build registers
OnFirstPage == "_draw_footer"

OnLaterPages == "_draw_footer"

\* the document template calls onFirstPage on page 1 and onLaterPages on
\* every other page
PageCallback(number) == IF number = 1 THEN OnFirstPage ELSE OnLaterPages

\* a callback other than _draw_footer is the template's default, which draws
\* nothing
Invoke(callback, canvas, firm) ==
    IF callback = "_draw_footer" THEN draw_footer(canvas, firm) ELSE canvas

Page(number, firm) ==
    [number |-> number,
     canvas |-> Invoke(PageCallback(number), BlankCanvas, firm),
     callback |-> PageCallback(number)]

SuccessMessage(output_path) ==
    "ReportLab PDF '" \o output_path \o "' generated successfully."

OutputPath == "invoice.pdf"

---------------------------------------------------------------------------
(* The program: the __main__ block constructs the records and the writer   *)
(* and calls build; pc is the statement about to run.                      *)

\* as BuildOrder, with the fee detail ahead of the invoice number
BuildOrderFeesFirst ==
    <<"lawyer_title", "spacer_a", "collaborator_title", "spacer_b",
      "client_address", "spacer_c", "place_and_date", "spacer_d",
      "detail_fees", "spacer_e", "invoice_number_rectangle", "spacer_f",
      "final", "doc_build">>

\* the statements of build that add to the story, in the order of the code
BuildOrder ==
    <<"lawyer_title", "spacer_a", "collaborator_title", "spacer_b",
      "client_address", "spacer_c", "place_and_date", "spacer_d",
      "invoice_number_rectangle", "spacer_e", "detail_fees", "spacer_f",
      "final", "doc_build">>

\* the heights build passes to spacer, in tenths
SpacerHeights ==
    [spacer_a |-> 15, spacer_b |-> 10, spacer_c |-> 30, spacer_d |-> 5,
     spacer_e |-> 20, spacer_f |-> 20]

IndexOf(label) == CHOOSE i \in 1..Len(BuildOrder) : BuildOrder[i] = label

\* if self.lawfirm.collaborators:
HasCollaborators(firm) == firm.collaborators # <<>>

\* the statement of build that runs after `label`
NextCall(label, firm) ==
    IF label = "spacer_a" /\ ~HasCollaborators(firm) THEN "client_address"
    ELSE BuildOrder[IndexOf(label) + 1]

\* as EmptyStory, had contents been a list shared by the instances of the class
SharedStory(old) == old

\* self.contents = [] of __init__
EmptyStory(old) == <<>>

\* one statement of build: it appends blocks to self.contents
Step(label, blocks) ==
    /\ pc = label
    /\ contents' = contents \o blocks
    /\ pc' = NextCall(label, lawfirm[1])
    /\ UNCHANGED <<client, lawfirm, times, fees, now, handed, story, pages,
                   saved, writes, stdout, raised, archive>>

\* a pydantic ValidationError leaves the program
Reject ==
    /\ pc' = "raised"
    /\ raised' = "ValidationError"
    /\ UNCHANGED <<client, lawfirm, times, fees, contents, now, handed, story,
                   pages, saved, writes, stdout, archive>>

ConstructClient(genders) ==
    /\ pc = "client"
    /\ \E g \in genders :
          IF ClientValid("John DOE", g, "Paris", "75000", "123 Rue de la Paix")
          THEN /\ client' = <<Client("John DOE", g, "Paris", "75000",
                                     "123 Rue de la Paix")>>
               /\ pc' = "lawfirm"
               /\ UNCHANGED <<lawfirm, times, fees, contents, now, handed, story,
                              pages, saved, writes, stdout, raised, archive>>
          ELSE Reject

ConstructLawFirm(contacts, lists) ==
    /\ pc = "lawfirm"
    /\ \E c \in contacts, names \in lists : lawfirm' = <<LawFirm(c, names)>>
    /\ pc' = "times"
    /\ UNCHANGED <<client, times, fees, contents, now, handed, story, pages,
                   saved, writes, stdout, raised, archive>>

ConstructTime(inputs, max) ==
    /\ pc = "times"
    /\ Len(times) < max
    /\ \E t \in inputs :
          IF TimeValid(t.description, t.duration, t.date)
          THEN /\ times' = Append(times, Time(t.description, t.duration, t.date))
               /\ UNCHANGED <<pc, client, lawfirm, fees, contents, now, handed,
                              story, pages, saved, writes, stdout, raised, archive>>
          ELSE Reject

ConstructFees(rates) ==
    /\ pc = "times"
    /\ \E r \in rates :
          IF FeesValid(times, r)
          THEN /\ fees' = <<Fees(times, r)>>
               /\ pc' = "writer"
               /\ UNCHANGED <<client, lawfirm, times, contents, now, handed, story,
                              pages, saved, writes, stdout, raised, archive>>
          ELSE Reject

\* PDFInvoiceWriter.__init__
WriterInit ==
    /\ pc = "writer"
    /\ contents' = EmptyStory(contents)
    /\ pc' = "lawyer_title"
    /\ UNCHANGED <<client, lawfirm, times, fees, now, handed, story, pages,
                   saved, writes, stdout, raised, archive>>

LawyerTitle == Step("lawyer_title", lawyer_title(lawfirm[1].principal_lawyer))

SpacerStep ==
    \E label \in DOMAIN SpacerHeights : Step(label, spacer(SpacerHeights[label]))

CollaboratorTitle ==
    Step("collaborator_title", collaborator_title(lawfirm[1].collaborators))

ClientAddress == Step("client_address", client_address(client[1]))

\* self.place_and_date("Paris", datetime.now())
PlaceAndDate(instants) ==
    /\ pc = "place_and_date"
    /\ \E t \in instants :
          /\ now' = <<t>>
          /\ contents' = contents \o place_and_date("Paris", t)
    /\ pc' = NextCall(pc, lawfirm[1])
    /\ UNCHANGED <<client, lawfirm, times, fees, handed, story, pages, saved,
                   writes, stdout, raised, archive>>

InvoiceNumberRectangle ==
    Step("invoice_number_rectangle", invoice_number_rectangle("2025-121"))

DetailFees == Step("detail_fees", detail_fees(fees[1]))

Final == Step("final", final)

\* doc.build receives the story
DocBuild ==
    /\ pc = "doc_build"
    /\ handed' = TRUE
    /\ story' = contents
    /\ pc' = "layout"
    /\ UNCHANGED <<client, lawfirm, times, fees, contents, now, pages, saved,
                   writes, stdout, raised, archive>>

\* the document template starts one more page and calls the page's callback
RenderPage(max) ==
    /\ pc = "layout"
    /\ Len(pages) < max
    /\ pages' = Append(pages, Page(Len(pages) + 1, lawfirm[1]))
    /\ UNCHANGED <<pc, client, lawfirm, times, fees, contents, now, handed,
                   story, saved, writes, stdout, raised, archive>>

\* the story is laid out: the document has at least one page
EndLayout ==
    /\ pc = "layout"
    /\ Len(pages) >= 1
    /\ pc' = "save"
    /\ UNCHANGED <<client, lawfirm, times, fees, contents, now, handed, story,
                   pages, saved, writes, stdout, raised, archive>>

\* as AfterDocBuild, had build caught the error of doc.build
AfterDocBuildCaught(outcome) == "print"

\* the statement that runs after doc.build: the print when the file was
\* written; an OSError leaves doc.build and build
AfterDocBuild(outcome) == IF outcome = "written" THEN "print" ELSE "raised"

\* doc.build writes the output file, or fails to
Save ==
    /\ pc = "save"
    /\ \E outcome \in {"written", "failed"} :
          /\ saved' = outcome
          /\ pc' = AfterDocBuild(outcome)
          /\ raised' = IF AfterDocBuild(outcome) = "raised" THEN "OSError" ELSE raised
    /\ writes' = writes + 1
    /\ UNCHANGED <<client, lawfirm, times, fees, contents, now, handed, story,
                   pages, stdout, archive>>

\* print(f"ReportLab PDF '{self.output_path}' generated successfully.")
PrintSuccess ==
    /\ pc = "print"
    /\ stdout' = Append(stdout, SuccessMessage(OutputPath))
    /\ pc' = "done"
    /\ UNCHANGED <<client, lawfirm, times, fees, contents, now, handed, story,
                   pages, saved, writes, raised, archive>>

\* The program runs once more, in the same interpreter, for another invoice:
\* the finished build is kept for comparison, the names are unbound again.
\* The list of the finished writer stays in memory.
RunAgain ==
    /\ pc = "done"
    /\ archive' = <<[client |-> client[1], lawfirm |-> lawfirm[1],
                     fees |-> fees[1], now |-> now[1], story |-> story]>>
    /\ pc' = "client"
    /\ client' = <<>>
    /\ lawfirm' = <<>>
    /\ times' = <<>>
    /\ fees' = <<>>
    /\ now' = <<>>
    /\ handed' = FALSE
    /\ story' = <<>>
    /\ pages' = <<>>
    /\ saved' = "none"
    /\ writes' = 0
    /\ stdout' = <<>>
    /\ UNCHANGED <<contents, raised>>

Init ==
    /\ pc = "client"
    /\ client = <<>>
    /\ lawfirm = <<>>
    /\ times = <<>>
    /\ fees = <<>>
    /\ contents = <<>>
    /\ now = <<>>
    /\ handed = FALSE
    /\ story = <<>>
    /\ pages = <<>>
    /\ saved = "none"
    /\ writes = 0
    /\ stdout = <<>>
    /\ raised = ""
    /\ archive = <<>>

Build(instants, maxPages) ==
    \/ LawyerTitle
    \/ SpacerStep
    \/ CollaboratorTitle
    \/ ClientAddress
    \/ PlaceAndDate(instants)
    \/ InvoiceNumberRectangle
    \/ DetailFees
    \/ Final
    \/ DocBuild
    \/ RenderPage(maxPages)
    \/ EndLayout
    \/ Save
    \/ PrintSuccess

\* One run of the program: the client, the collaborators and the law firm's
\* texts vary, the fee schedule is short.
Next ==
    \/ ConstructClient(GenderTags)
    \/ ConstructLawFirm(FirmContacts, SeqsUpTo(CollaboratorNames, MaxCollab))
    \/ ConstructTime(FewTimeInputs, MaxRows)
    \/ ConstructFees({MainRate})
    \/ WriterInit
    \/ Build(FewInstants, MaxPages)

Spec == Init /\ [][Next]_vars

\* One run of the program: the fee schedule varies, the client and the law
\* firm are those of the __main__ block, the document has one page.
NextFees ==
    \/ ConstructClient({"M"})
    \/ ConstructLawFirm({MainFirm}, {MainCollaborators})
    \/ ConstructTime(TimeInputs, MaxTimes)
    \/ ConstructFees(Rates)
    \/ WriterInit
    \/ Build({Instant(2025, 3, 24, 9)}, 1)

SpecFees == Init /\ [][NextFees]_vars

\* Runs of the program one after the other, each compared with the one
\* before it.
NextTwoBuilds ==
    \/ ConstructClient({"M", "F"})
    \/ ConstructLawFirm({MainFirm}, {<<>>, MainCollaborators})
    \/ ConstructTime({MainTimes[3]}, MaxRows)
    \/ ConstructFees({MainRate})
    \/ WriterInit
    \/ Build(Clock, MaxPages)
    \/ RunAgain

SpecTwoBuilds == Init /\ [][NextTwoBuilds]_vars

---------------------------------------------------------------------------
(* What the properties below read off a state. *)

\* build has run the statement `label` (or has passed it)
Ran(label) ==
    \/ pc \in {"layout", "save", "print", "done"}
    \/ pc = "raised" /\ raised = "OSError"
    \/ /\ \E i \in 1..Len(BuildOrder) : BuildOrder[i] = pc
       /\ IndexOf(pc) > IndexOf(label)

\* the tables of a story that are not the boxed invoice number: the itemized
\* fee table, then the totals table
UnboxedTables(blocks) == SelectSeq(blocks, LAMBDA b : b.kind = "Table" /\ ~b.box)

\* the hours a row of the model's fee schedules can show
HourRange == 0..4

ApplyPerm(ts, perm) == [i \in 1..Len(ts) |-> ts[perm[i]]]

\* a block as the outline of a story names it: a paragraph by its text
Sig(b) ==
    IF b.kind = "Paragraph" THEN b.text
    ELSE IF b.box THEN "[boxed table]" ELSE "[table]"

\* the blocks of a story that are not spacers, each named by Sig
Outline(blocks) ==
    LET shown == SelectSeq(blocks, LAMBDA b : b.kind # "Spacer")
    IN  [i \in 1..Len(shown) |-> Sig(shown[i])]

\* the outline of the collaborators block for a list of names
CollaboratorsOutline(names) ==
    IF names = <<>> THEN <<>>
    ELSE <<"En collaboration avec :">> \o names
         \o <<IF Len(names) = 1 THEN "Avocate à la Cour" ELSE "Avocates à la Cour">>

\* the outline of the blocks before and after the collaborators block
HeadOutline(firm) == <<firm.principal_lawyer, "Avocate à la Cour">>

TailOutline(c, f, t) ==
    <<(IF c.gender = "M" THEN "Monsieur " ELSE "Madame ") \o c.name,
      c.adress,
      c.zip_code \o " " \o c.city,
      "Paris, le " \o ToString(t.day) \o " " \o MONTH_TO_FRENCH[t.month] \o " "
          \o ToString(t.year),
      "[boxed table]",
      "<u>Honoraires</u>",
      "Facturation horaire : " \o FloatStr(f.price)
          \o " euros HT de l'heure (selon l'article 2.1 du contrat de mission)",
      "Diligences effectuées :",
      "[table]",
      "[table]",
      "TVA Applicable -",
      "En votre aimable règlement",
      "<u>Conformément à nos usages de professions libérales, la présente est payable dès réception</u>">>

IsPrefix(p, q) == Len(p) <= Len(q) /\ SubSeq(q, 1, Len(p)) = p

---------------------------------------------------------------------------
(* C1.  For every time entry with a non-negative duration of d seconds,    *)
(* the HH:MM cell of its row in the itemized fee table shows the hours and *)
(* minutes with hours*3600 + minutes*60 <= d < hours*3600 + (minutes+1)*60 *)
(* and 0 <= minutes < 60: the seconds left over are dropped, never rounded *)
(* up.                                                                     *)
C1_DurationTruncated ==
    Ran("detail_fees") =>
        LET rows == UnboxedTables(contents)[1].rows
        IN  /\ Len(rows) = Len(fees[1].times)
            /\ \A i \in 1..Len(rows) :
                  LET d == fees[1].times[i].duration
                  IN  d >= 0 =>
                        \E h \in HourRange, m \in 0..59 :
                           /\ h * 3600 + m * 60 <= d
                           /\ d < h * 3600 + (m + 1) * 60
                           /\ rows[i][3].text = Fmt02(h) \o ":" \o Fmt02(m)

\* the fee table holds a row for a non-negative duration with seconds left over
C1_Witness ==
    /\ Ran("detail_fees")
    /\ \E i \in 1..Len(fees[1].times) :
          /\ fees[1].times[i].duration >= 0
          /\ fees[1].times[i].duration % 60 # 0
          /\ UnboxedTables(contents)[1].rows[i][3].text = "00:10"

(* C2.  show_total computes the subtotal as the sum of the unrounded       *)
(* per-entry prices, which is the rate times the total duration in hours   *)
(* whatever the order of the entries, the VAT as 20% of the subtotal and   *)
(* the total as subtotal plus VAT, and shows them to two decimals; for the *)
(* entries of 11 min, 6 min, 60 min and 3h12 at rate 300 the totals table  *)
(* reads 04h29, 1345.00, 269.00 and 1614.00.                               *)
C2_TotalsFromUnroundedPrices ==
    pc = "spacer_f" =>
        LET f == fees[1]
            t == Totals(f)
            n == Len(f.times)
            rows == UnboxedTables(contents)[2].rows
        IN  /\ \A perm \in Permutations(1..n) :
                  Totals(Fees(ApplyPerm(f.times, perm), f.price)) = t
            /\ t.ht_price = f.price * t.total_time_seconds * (MoneyScale \div 3600)
            /\ t.vat * 5 = t.ht_price
            /\ t.ttc_price = t.ht_price + t.vat
            /\ rows[2][3].text = Fmt2f(t.ht_price) \o " €"
            /\ rows[3][3].text = Fmt2f(t.vat) \o " €"
            /\ rows[4][3].text = Fmt2f(t.ttc_price) \o " €"
            /\ (f.times = MainTimes /\ f.price = 300) =>
                  /\ t.total_time_seconds = 269 * 60
                  /\ t.ht_price = 1345 * MoneyScale
                  /\ t.vat = 269 * MoneyScale
                  /\ t.ttc_price = 1614 * MoneyScale
                  /\ rows[1][2].text = "<u>Soit un total de 04h29</u>"
                  /\ rows[2][3].text = "1345.00 €"
                  /\ rows[3][3].text = "269.00 €"
                  /\ rows[4][3].text = "1614.00 €"

\* show_total has run on the four entries of the scenario at rate 300
C2_Witness ==
    /\ pc = "spacer_f"
    /\ fees[1].times = MainTimes
    /\ fees[1].price = 300
    /\ UnboxedTables(contents)[2].rows[4][3].text = "1614.00 €"

(* C3.  A negative duration and a negative hourly rate are rejected when   *)
(* the Time / Fees record is constructed, so no statement of build ever    *)
(* runs on one.                                                            *)
C3_NegativeRejected ==
    Ran("detail_fees") =>
        /\ fees[1].price >= 0
        /\ \A i \in 1..Len(fees[1].times) : fees[1].times[i].duration >= 0

(* C4.  The first line of the client address block begins with "Monsieur" *)
(* when the client's gender tag is M and with "Madame" when it is F, and   *)
(* no client with another gender tag reaches client_address: the record is *)
(* not constructed.                                                        *)
C4_Honorific ==
    LET block == SelectSeq(contents,
                     LAMBDA b : b.kind = "Paragraph" /\ b.style.alignment = "right"
                                /\ b.style.fontName = "YrsaBold")
    IN  /\ client # <<>> => client[1].gender \in {"M", "F"}
        /\ Ran("client_address") =>
              /\ Len(block) = 3
              /\ client[1].gender = "M" => block[1].text = "Monsieur John DOE"
              /\ client[1].gender = "F" => block[1].text = "Madame John DOE"
        /\ ~Ran("client_address") => block = <<>>

\* client_address has run for a client whose gender tag is F
C4_Witness ==
    /\ Ran("client_address")
    /\ client[1].gender = "F"
    /\ \E i \in 1..Len(contents) : contents[i].text = "Madame John DOE"

(* C5.  The collaborators block (heading, one line per name, caption) is   *)
(* in the story if and only if the law firm's collaborator list is not     *)
(* empty; its caption is "Avocate à la Cour" if and only if the list has   *)
(* exactly one name and "Avocates à la Cour" otherwise; with an empty list *)
(* all the other blocks are still emitted.                                 *)
C5_CollaboratorsBlock ==
    Ran("spacer_b") =>
        LET names == lawfirm[1].collaborators
            n == Len(names)
            heads == {i \in 1..Len(contents) :
                         contents[i].text = "En collaboration avec :"}
            captions == SelectSeq(contents,
                            LAMBDA b : /\ b.kind = "Paragraph"
                                       /\ b.style.alignment = "left"
                                       /\ b.text \in {"Avocate à la Cour",
                                                      "Avocates à la Cour"})
        IN  /\ heads # {} <=> names # <<>>
            /\ captions # <<>> <=> names # <<>>
            /\ names # <<>> =>
                  /\ Cardinality(heads) = 1
                  /\ Len(captions) = 1
                  /\ captions[1].text = "Avocate à la Cour" <=> n = 1
                  /\ captions[1].text = "Avocates à la Cour" <=> n # 1
                  /\ \A i \in heads :
                        /\ \A k \in 1..n : contents[i + k].text = names[k]
                        /\ contents[i + n + 1] = captions[1]
            /\ (handed /\ names = <<>>) =>
                  Outline(story) =
                      HeadOutline(lawfirm[1]) \o TailOutline(client[1], fees[1], now[1])

\* the story of a firm with exactly one collaborator is handed over
C5_Witness ==
    /\ handed
    /\ Len(lawfirm[1].collaborators) = 1
    /\ \E i \in 1..Len(story) :
          story[i].text = "Avocate à la Cour" /\ story[i].style.alignment = "left"

\* nothing is handed over before doc.build; what it receives is the whole
\* story, its blocks in the order of build and its fee rows in input order
C6_HandedStoryInOrder ==
    /\ ~handed => (story = <<>> /\ pages = <<>>)
    /\ handed =>
          /\ story = contents
          /\ Outline(story) =
                HeadOutline(lawfirm[1])
                \o CollaboratorsOutline(lawfirm[1].collaborators)
                \o TailOutline(client[1], fees[1], now[1])
          /\ LET rows == UnboxedTables(story)[1].rows
             IN  /\ Len(rows) = Len(fees[1].times)
                 /\ \A i \in 1..Len(rows) :
                       rows[i][2].text =
                           fees[1].times[i].description \o " ("
                           \o StrfDate(fees[1].times[i].date) \o ")"

\* a step only appends to contents, and changes nothing once the story is
\* handed over
C6_AppendOnly ==
    /\ IsPrefix(contents, contents')
    /\ handed => (handed' /\ story' = story /\ contents' = contents)

(* C6.  build appends blocks only at the end of the story and in a fixed   *)
(* order: lawyer title, collaborators block when there is one, client      *)
(* address, place and date, invoice number box, fee detail (Honoraires,    *)
(* hourly rate, Diligences, the fee table with one row per entry in input  *)
(* order, the totals table), closing sentences; the story is complete when *)
(* the document build receives it, and nothing is handed over before.      *)
C6_FixedOrder == [](C6_HandedStoryInOrder) /\ [][C6_AppendOnly]_vars

\* a story with a collaborators block and two different fee rows is handed over
C6_Witness ==
    /\ handed
    /\ lawfirm[1].collaborators # <<>>
    /\ Len(fees[1].times) = 2
    /\ fees[1].times[1] # fees[1].times[2]
    /\ Len(UnboxedTables(story)[1].rows) = 2

(* C7.  Two builds given the same client, law firm, fee schedule, invoice  *)
(* number, place and issue date hand the same story, block for block, to   *)
(* the document build.  (The invoice number and the place are fixed in     *)
(* build; the issue date is the date of datetime.now().)                   *)
C7_SameInputsSameStory ==
    ( /\ archive # <<>>
      /\ handed
      /\ archive[1].client = client[1]
      /\ archive[1].lawfirm = lawfirm[1]
      /\ archive[1].fees = fees[1]
      /\ archive[1].now.year = now[1].year
      /\ archive[1].now.month = now[1].month
      /\ archive[1].now.day = now[1].day )
    => story = archive[1].story

\* a second build of the same records, on the same day at another hour
C7_Witness ==
    /\ archive # <<>>
    /\ handed
    /\ archive[1].client = client[1]
    /\ archive[1].lawfirm = lawfirm[1]
    /\ archive[1].fees = fees[1]
    /\ archive[1].now.year = now[1].year
    /\ archive[1].now.month = now[1].month
    /\ archive[1].now.day = now[1].day
    /\ archive[1].now.hour # now[1].hour
    /\ Len(story) > 0

(* C8.  The footer callback is fired for every page of the document, the   *)
(* first and the later ones alike; on each page it draws the same three    *)
(* lines (address, zip, city; phone, mail, website; VAT number, SIRET) at  *)
(* the same positions, and the canvas state it saves first is restored at  *)
(* its end.                                                                *)
C8_FooterOnEveryPage ==
    /\ (pc \in {"save", "print", "done"} \/ saved # "none") => Len(pages) >= 1
    /\ \A i \in 1..Len(pages) :
          LET c == pages[i].canvas
              firm == lawfirm[1]
          IN  /\ pages[i].number = i
              /\ Len(c.drawn) = 3
              /\ c.drawn[1].text =
                    firm.adress \o " " \o firm.zip_code \o " " \o firm.city
              /\ c.drawn[2].text =
                    "Tel : " \o firm.phone \o " - Mail : " \o firm.mail
                    \o " - Site : " \o firm.website
              /\ c.drawn[3].text =
                    "TVA Intracommunautaire : " \o firm.vat_number
                    \o " - SIRET : " \o firm.siret_number
              /\ c.drawn = pages[1].canvas.drawn
              /\ c.saved = 0

\* a page after the first has been rendered
C8_Witness ==
    /\ Len(pages) >= 2
    /\ Len(pages[2].canvas.drawn) = 3
    /\ pages[2].number = 2

(* C9.  build prints the success message only after the document write     *)
(* has completed without error; when the write fails the error reaches the *)
(* caller of build, success is never reported for that build and the write *)
(* is not tried again.                                                     *)
C9_SuccessOnlyAfterWrite ==
    /\ stdout # <<>> =>
          /\ saved = "written"
          /\ raised = ""
          /\ stdout = <<"ReportLab PDF 'invoice.pdf' generated successfully.">>
    /\ saved = "failed" =>
          /\ raised = "OSError"
          /\ pc = "raised"
          /\ stdout = <<>>
    /\ pc = "done" => stdout # <<>>
    /\ writes <= 1

\* the write of the output file has failed
C9_Witness == saved = "failed" /\ writes = 1 /\ raised = "OSError"

(* C10.  With y0 = bottomMargin/2 and line heights h1, h2, h3 the footer   *)
(* draws line 1 at y0 + 1.5*h1, line 2 at y0 + 0.5*h1 and line 3 at        *)
(* y0 - 0.5*h2; no two of the three lines overlap vertically and all three *)
(* lie inside the bottom margin, between 0 and bottomMargin.               *)
C10_FooterStacking ==
    \A i \in 1..Len(pages) :
        LET d == pages[i].canvas.drawn
        IN  /\ Len(d) = 3
            /\ 2 * d[1].bottom = 72 + 3 * d[1].height
            /\ 2 * d[2].bottom = 72 + d[1].height
            /\ 2 * d[3].bottom = 72 - d[2].height
            /\ \A a, b \in 1..3 :
                  a < b => (d[a].bottom + d[a].height <= d[b].bottom \/ d[b].bottom + d[b].height <= d[a].bottom)
            /\ \A a \in 1..3 : 0 <= d[a].bottom /\ d[a].bottom + d[a].height <= 72

=============================================================================
